---------------------------- MODULE Spec2Model ----------------------------
(***************************************************************************)
(* Model of azure-opencode-setup: the lock-protected read-merge-write of   *)
(* opencode.json and auth.json (cli.py, io.py, locking.py, merge.py).      *)
(*                                                                         *)
(* JSON values are tagged records, JSON objects keep Python's dict order   *)
(* (a sequence of <<key, value>> pairs), and a file's text is a sequence   *)
(* of tokens, so that a half-written file differs from a complete one.     *)
(***************************************************************************)
EXTENDS Naturals, Integers, Sequences, FiniteSets, TLC

(***************************************************************************)
(* Bounds of the model.                                                    *)
(***************************************************************************)
\* number of concurrent setup invocations
NumProcs == 2
\* number of backup_file calls the backup driver makes
MaxBackups == 2
\* number of clock ticks (microseconds) the backup driver may see
MaxClock == 1

Procs == 1..NumProcs

(***************************************************************************)
(* JSON values.                                                            *)
(***************************************************************************)
Str(s) == [t |-> "str", s |-> s]
Null == [t |-> "null"]
List(l) == [t |-> "list", l |-> l]
Obj(o) == [t |-> "obj", o |-> o]

IsObj(v) == v.t = "obj"
IsList(v) == v.t = "list"
IsStr(v) == v.t = "str"

\* dict operations on the pair sequence of an object (insertion ordered)
Keys(o) == {o[i][1] : i \in DOMAIN o}
Has(o, k) == k \in Keys(o)
Get(o, k) == o[CHOOSE i \in DOMAIN o : o[i][1] = k][2]
Put(o, k, v) ==
    IF Has(o, k)
    THEN [i \in DOMAIN o |-> IF o[i][1] = k THEN <<k, v>> ELSE o[i]]
    ELSE Append(o, <<k, v>>)
\* dict equality ignores the order of the keys
SameDict(a, b) ==
    /\ Keys(a) = Keys(b)
    /\ \A k \in Keys(a) : Get(a, k) = Get(b, k)

(***************************************************************************)
(* Results of operations that may raise.                                   *)
(***************************************************************************)
Ok(v) == [err |-> "none", val |-> v]
Raise(kind) == [err |-> kind, val |-> Null]

(***************************************************************************)
(* merge.py                                                                *)
(***************************************************************************)
\* characters of a resource name, by class
AlnumChars == {"a", "b", "R", "2"}
HyphenChar == "-"
NewlineChar == "\n"
\* [a-zA-Z0-9-]{0,62}
MaxInterior == 62

IsAlnum(c) == c \in AlnumChars
IsInterior(c) == c \in AlnumChars \/ c = HyphenChar

\* ^[a-zA-Z0-9][a-zA-Z0-9-]{0,62}[a-zA-Z0-9]$|^[a-zA-Z0-9]$ under re.match:
\* "$" matches at the end of the string and also just before a final newline
MatchesBody(s) ==
    \/ /\ Len(s) = 1
       /\ IsAlnum(s[1])
    \/ /\ Len(s) >= 2
       /\ Len(s) - 2 <= MaxInterior
       /\ IsAlnum(s[1])
       /\ IsAlnum(s[Len(s)])
       /\ \A i \in 2..(Len(s) - 1) : IsInterior(s[i])

ResourceNameMatches(s) ==
    \/ MatchesBody(s)
    \/ /\ Len(s) >= 2
       /\ s[Len(s)] = NewlineChar
       /\ MatchesBody(SubSeq(s, 1, Len(s) - 1))

\* validate_resource_name: TRUE when it raises ValidationError
validate_resource_name_raises(name) ==
    name = <<>> \/ ~ResourceNameMatches(name)

RECURSIVE DedupFrom(_, _, _)
DedupFrom(items, i, acc) ==
    IF i > Len(items) THEN acc
    ELSE IF \E j \in DOMAIN acc : acc[j] = items[i]
         THEN DedupFrom(items, i + 1, acc)
         ELSE DedupFrom(items, i + 1, Append(acc, items[i]))

\* faulty variant: repeated items are kept
_dedup_keeps_repeats(items) == items

_dedup_preserve_order(items) == DedupFrom(items, 1, <<>>)

\* the string of a JSON string value, as [str(x) for x in typed_dp]
StrOf(v) == v.s

_validate_string_list_raises(items) ==
    \E i \in DOMAIN items : ~IsStr(items[i])

\* faulty variant: the caller's entries are put ahead of the existing ones
_merge_disabled_providers_new_first(existing_dp, new_providers) ==
    IF existing_dp = Null
    THEN Ok(_dedup_preserve_order(new_providers))
    ELSE IF IsList(existing_dp)
         THEN IF _validate_string_list_raises(existing_dp.l)
              THEN Raise("InvalidSchemaError")
              ELSE Ok(_dedup_preserve_order(
                       new_providers
                       \o [i \in DOMAIN existing_dp.l |-> StrOf(existing_dp.l[i])]))
         ELSE Raise("InvalidSchemaError")

\* existing_dp is a JSON value or Null for "key absent / None"
_merge_disabled_providers(existing_dp, new_providers) ==
    IF existing_dp = Null
    THEN Ok(_dedup_preserve_order(new_providers))
    ELSE IF IsList(existing_dp)
         THEN IF _validate_string_list_raises(existing_dp.l)
              THEN Raise("InvalidSchemaError")
              ELSE Ok(_dedup_preserve_order(
                       [i \in DOMAIN existing_dp.l |-> StrOf(existing_dp.l[i])]
                       \o new_providers))
         ELSE Raise("InvalidSchemaError")

StrList(l) == List([i \in DOMAIN l |-> Str(l[i])])

\* the two endpoint templates: a JSON string made of the host and the name
BaseUrl(provider_id, resource_name) ==
    IF provider_id = "azure"
    THEN [t |-> "str", s |-> "https", host |-> "openai.azure.com",
          name |-> resource_name]
    ELSE [t |-> "str", s |-> "https", host |-> "cognitiveservices.azure.com",
          name |-> resource_name]

\* faulty variant: the whitelist is stored as the caller gave it
ProviderBlockAsGiven(provider_id, resource_name, whitelist) ==
    Obj(<< <<"options", Obj(<< <<"baseURL", BaseUrl(provider_id, resource_name)>> >>)>>,
           <<"whitelist", StrList(whitelist)>> >>)

ProviderBlock(provider_id, resource_name, whitelist) ==
    Obj(<< <<"options", Obj(<< <<"baseURL", BaseUrl(provider_id, resource_name)>> >>)>>,
           <<"whitelist", StrList(_dedup_preserve_order(whitelist))>> >>)

merge_auth(existing, provider_id, api_key) ==
    IF provider_id = "" THEN Raise("ValidationError")
    ELSE IF api_key = "" THEN Raise("ValidationError")
    ELSE Ok(Obj(Put(existing.o, provider_id,
                    Obj(<< <<"type", Str("api")>>, <<"key", Str(api_key)>> >>))))

merge_config(existing, provider_id, resource_name, whitelist, disabled_providers) ==
    IF provider_id = "" THEN Raise("ValidationError")
    ELSE IF validate_resource_name_raises(resource_name) THEN Raise("ValidationError")
    ELSE LET dpOld == IF Has(existing.o, "disabled_providers")
                      THEN Get(existing.o, "disabled_providers")
                      ELSE Null
             dp == _merge_disabled_providers(dpOld, disabled_providers)
         IN  IF dp.err # "none" THEN Raise(dp.err)
             ELSE LET r1 == Put(existing.o, "disabled_providers", StrList(dp.val))
                      old == IF Has(r1, "provider") THEN Get(r1, "provider") ELSE Null
                      providers == IF IsObj(old) THEN old.o ELSE <<>>
                      p2 == Put(providers, provider_id,
                                ProviderBlock(provider_id, resource_name, whitelist))
                  IN  Ok(Obj(Put(r1, "provider", Obj(p2))))

(***************************************************************************)
(* io.py: the text of a file, read_json_object and the serialization of    *)
(* atomic_write_json.                                                      *)
(***************************************************************************)
\* tokens of a file's text
Tok(kind) == [tok |-> kind, k |-> "", v |-> Null]
Member(k, v) == [tok |-> "member", k |-> k, v |-> v]
Scalar(v) == [tok |-> "value", k |-> "", v |-> v]
BOM == Tok("bom")
LBrace == Tok("lbrace")
RBrace == Tok("rbrace")
Newline == Tok("nl")
Comment == Tok("comment")
Junk == Tok("junk")
\* bytes that are not valid UTF-8
BadByte == Tok("badbyte")

\* json.dumps(dict(data), indent=2, ensure_ascii=False) + "\n"
Serialize(doc) ==
    <<LBrace>> \o [i \in DOMAIN doc.o |-> Member(doc.o[i][1], doc.o[i][2])]
               \o <<RBrace, Newline>>

RECURSIVE Filter(_, _)
Filter(text, drop) ==
    IF text = <<>> THEN <<>>
    ELSE IF Head(text).tok \in drop THEN Filter(Tail(text), drop)
         ELSE <<Head(text)>> \o Filter(Tail(text), drop)

\* faulty variant: decoding with utf-8 keeps the byte-order mark
StripBomKept(text) == text

\* decoding with utf-8-sig drops one leading byte-order mark
StripBom(text) ==
    IF text # <<>> /\ Head(text) = BOM THEN Tail(text) ELSE text

_strip_jsonc_comments(text) == Filter(text, {"comment"})

RECURSIVE DictOf(_, _)
DictOf(members, acc) ==
    IF members = <<>> THEN acc
    ELSE DictOf(Tail(members), Put(acc, Head(members).k, Head(members).v))

\* json.loads on the tokens: whitespace is skipped, one value is expected
json_loads(text) ==
    LET body == Filter(text, {"nl"})
        n == Len(body)
    IN  IF /\ n >= 2
           /\ body[1] = LBrace
           /\ body[n] = RBrace
           /\ \A i \in 2..(n - 1) : body[i].tok = "member"
        THEN Ok(Obj(DictOf(SubSeq(body, 2, n - 1), <<>>)))
        ELSE IF n = 1 /\ body[1].tok = "value"
             THEN Ok(body[1].v)
             ELSE Raise("InvalidJsonError")

\* read_json_object on the bytes of an existing file: read_text decodes them
\* (a UnicodeDecodeError is a ValueError, which "except OSError" lets through)
ParseText(text) ==
    IF \E i \in DOMAIN text : text[i] = BadByte THEN Raise("UnicodeDecodeError")
    ELSE LET parsed == json_loads(_strip_jsonc_comments(StripBom(text)))
         IN  IF parsed.err # "none" THEN parsed
             ELSE IF ~IsObj(parsed.val) THEN Raise("InvalidSchemaError")
                  ELSE parsed

(***************************************************************************)
(* The file system: paths, files, permissions.                             *)
(***************************************************************************)
\* who may access a file: the owner only (0o600, or an owner-only ACL), or
\* also group and others (0o644, or an inherited ACL)
OwnerOnly == {"owner"}
Permissive == {"owner", "group", "other"}

MkPath(dir, base, kind, ts, rand) ==
    [dir |-> dir, base |-> base, kind |-> kind, ts |-> ts, rand |-> rand]

\* paths.py: ~/.config/opencode/opencode.json and ~/.local/share/opencode/auth.json
opencode_config_path == MkPath(".config/opencode", "opencode.json", "data", 0, 0)
opencode_auth_path == MkPath(".local/share/opencode", "auth.json", "data", 0, 0)
Targets == {opencode_config_path, opencode_auth_path}

NoPath == MkPath("", "", "none", 0, 0)

File(text, mode) == [text |-> text, mode |-> mode]
Exists(files, path) == path \in DOMAIN files
WithFile(files, path, file) ==
    [q \in (DOMAIN files) \cup {path} |-> IF q = path THEN file ELSE files[q]]
Without(files, path) == [q \in (DOMAIN files) \ {path} |-> files[q]]
\* what an observer finds at a path: the file, or its absence
Absent == File(<<Tok("absent")>>, {})
FileAt(files, path) == IF Exists(files, path) THEN files[path] ELSE Absent

\* faulty variant: the data file itself is opened (mode "w") and locked
lock_path_is_target(path) == path

\* the sidecar lock file: path.with_suffix(path.suffix + ".lock")
lock_path(path) == [path EXCEPT !.kind = "lock"]

(***************************************************************************)
(* cli.py: discovery of the whitelist (the az CLI is an input).            *)
(***************************************************************************)
\* str.lower() on the model names of the model
Lower(s) ==
    CASE s = "GPT-4o" -> "gpt-4o"
      [] s = "O3" -> "o3"
      [] OTHER -> s

\* _SAFE_MODEL_ID_RE = ^[a-z0-9][a-z0-9._-]*$ on the model names of the model
SafeIdsSorted == <<"gpt-4o", "o3">>
SafeModelId(v) == \E i \in DOMAIN SafeIdsSorted : SafeIdsSorted[i] = v

RECURSIVE SelectSeq2(_, _)
SelectSeq2(seq, keep) ==
    IF seq = <<>> THEN <<>>
    ELSE IF Head(seq) \in keep THEN <<Head(seq)>> \o SelectSeq2(Tail(seq), keep)
         ELSE SelectSeq2(Tail(seq), keep)

\* the (name, model) pairs of the deployments, flattened in iteration order
RawNames(deployments) ==
    IF deployments = <<>> THEN <<>>
    ELSE [i \in 1..(2 * Len(deployments)) |->
             deployments[(i + 1) \div 2][IF i % 2 = 1 THEN 1 ELSE 2]]

\* _available_models_from_deployments: (sorted list, set)
_available_models_from_deployments(deployments) ==
    LET raw == RawNames(deployments)
        seen == {Lower(raw[i]) : i \in {j \in DOMAIN raw :
                                          raw[j] # "" /\ SafeModelId(Lower(raw[j]))}}
    IN  [sorted |-> SelectSeq2(SafeIdsSorted, seen), set |-> seen]

\* faulty variant: the entries are not looked up among the deployed models
_whitelist_unvalidated(desired_raw, available_sorted, available_set) ==
    IF desired_raw = <<>> THEN Ok(available_sorted)
    ELSE Ok(_dedup_preserve_order(
                [i \in DOMAIN desired_raw |-> Lower(desired_raw[i])]))

_normalize_and_validate_whitelist(desired_raw, available_sorted, available_set) ==
    IF desired_raw = <<>> THEN Ok(available_sorted)
    ELSE LET whitelist == _dedup_preserve_order(
                              [i \in DOMAIN desired_raw |-> Lower(desired_raw[i])])
         IN  IF \E i \in DOMAIN whitelist : whitelist[i] \notin available_set
             THEN Raise("ValidationError")
             ELSE Ok(whitelist)

\* _discover_whitelist_and_models: the account name and the whitelist
_discover_whitelist_and_models(prm) ==
    IF prm.az # "ok" THEN Raise("DiscoveryError")
    ELSE IF prm.deployments = <<>> THEN Raise("ValidationError")
    ELSE LET avail == _available_models_from_deployments(prm.deployments)
             wl == _normalize_and_validate_whitelist(prm.whitelist, avail.sorted,
                                                     avail.set)
         IN  IF wl.err # "none" THEN wl
             ELSE Ok([t |-> "found", name |-> prm.resource_name, whitelist |-> wl.val])

\* _obtain_api_key: the key of the environment or of stdin, "" when unset or empty
_obtain_api_key(prm) ==
    IF prm.api_key = "" THEN Raise("ValidationError") ELSE Ok(Str(prm.api_key))

_EXIT_OK == 0
_EXIT_VALIDATION == 3
_EXIT_FILESYSTEM == 4
NoExit == 0 - 1

\* the except clauses of _execute_setup; an error they do not name propagates
Caught(kind) ==
    kind \in {"ValidationError", "InvalidSchemaError", "InvalidJsonError",
              "PermissionRestrictError", "LockError", "OSError"}
ExitCode(kind) ==
    IF kind = "none" THEN _EXIT_OK
    ELSE IF kind \in {"ValidationError", "InvalidSchemaError"} THEN _EXIT_VALIDATION
    ELSE _EXIT_FILESYSTEM

(***************************************************************************)
(* The inputs of a setup invocation.                                       *)
(***************************************************************************)
ProviderIds == <<"azure-cognitive-services", "azure", "custom">>
ProviderOf(p) == ProviderIds[((p - 1) % Len(ProviderIds)) + 1]
ApiKeys == <<"sk-1", "sk-2", "sk-3">>
ApiKeyOf(p) == ApiKeys[((p - 1) % Len(ApiKeys)) + 1]

GoodParams(p) ==
    [provider_id |-> ProviderOf(p),
     api_key |-> ApiKeyOf(p),
     resource_name |-> <<"R", "-", "2">>,
     whitelist |-> IF p % 2 = 1 THEN <<"O3", "GPT-4o", "o3">> ELSE <<>>,
     disabled_providers |-> IF ProviderOf(p) = "azure" THEN <<>> ELSE <<"azure">>,
     az |-> "ok",
     deployments |-> << <<"O3", "">>, <<"GPT-4o", "gpt-4o">> >>]

ParamChoices(p) ==
    LET g == GoodParams(p)
    IN  {g,
         [g EXCEPT !.api_key = ""],
         [g EXCEPT !.provider_id = ""],
         [g EXCEPT !.resource_name = <<"a", ".", "b">>],
         [g EXCEPT !.whitelist = <<"gpt-5">>],
         [g EXCEPT !.deployments = <<>>],
         [g EXCEPT !.az = "fail"]}

(***************************************************************************)
(* State.                                                                  *)
(***************************************************************************)
VARIABLES
    platform,    \* sys.platform: "posix" or "win32"
    fs,          \* the files: path -> [text, mode]
    fs0,         \* history: the files before the run
    lockHolder,  \* the exclusive lock on each lock file: its holder, or 0
    clock,       \* datetime.now(), in microseconds
    pc,          \* each invocation's position in _execute_setup
    params,      \* each invocation's SetupParams and environment
    mem,         \* each invocation's local documents
    wr,          \* each invocation's frame of atomic_write_json (made: history,
                 \* the temporary file mkstemp gave the call)
    exc,         \* the exception in flight in each invocation, or "none"
    ret,         \* each invocation's exit code, NoExit while it runs
    held,        \* the locks of the with-blocks each invocation is inside
    touched,     \* history: the target files each invocation has changed
    bk,          \* the caller of backup_file and its frame
    mg           \* the caller of merge_auth and merge_config: the objects of
                 \* the interpreter and the calls made so far

vars == <<platform, fs, fs0, lockHolder, clock, pc, params, mem, wr, exc, ret, held,
          touched, bk, mg>>

setupVars == <<pc, params, mem, wr, exc, ret, held, touched, lockHolder>>

NoParams == [provider_id |-> "", api_key |-> "", resource_name |-> <<>>,
             whitelist |-> <<>>, disabled_providers |-> <<>>, az |-> "",
             deployments |-> <<>>]
NoMem == [api_key |-> Null, found |-> Null, existing_config |-> Null,
          existing_auth |-> Null, new_config |-> Null, new_auth |-> Null]
NoWrite == [step |-> "none", path |-> NoPath, encoded |-> <<>>, secure |-> FALSE,
            tmp |-> NoPath, written |-> 0, fd |-> FALSE, err |-> "none",
            made |-> NoPath]
NoMerge == [step |-> "off", kind |-> "", heap |-> <<>>, doc |-> Null, hist |-> <<>>]
NoBackup == [step |-> "off", path |-> NoPath, backup_path |-> NoPath,
             content |-> <<>>, fd |-> FALSE, calls |-> 0, returned |-> {},
             err |-> "none"]

(***************************************************************************)
(* The files a run may start from.                                         *)
(***************************************************************************)
OtherProvider ==
    Obj(<< <<"options", Obj(<< <<"baseURL", Str("https://example.test")>> >>)>> >>)
ExistingConfig ==
    Obj(<< <<"theme", Str("dark")>>,
           <<"disabled_providers", StrList(<<"z-provider", "azure">>)>>,
           <<"provider", Obj(<< <<"other", OtherProvider>> >>)>> >>)
ExistingAuth ==
    Obj(<< <<"github-copilot",
             Obj(<< <<"type", Str("oauth")>>, <<"token", Str("gh-tok")>> >>)>> >>)

\* a legacy writer's file: a byte-order mark, a comment, no final newline
LegacyText(doc) ==
    <<BOM, Comment, LBrace>>
        \o [i \in DOMAIN doc.o |-> Member(doc.o[i][1], doc.o[i][2])] \o <<RBrace>>

InitialConfigTexts ==
    {Serialize(ExistingConfig),
     LegacyText(ExistingConfig),
     Serialize(Obj(<< <<"disabled_providers", Str("azure")>> >>)),
     <<Scalar(List(<<>>))>>,
     <<LBrace, Junk>>}
InitialAuthTexts ==
    {Serialize(ExistingAuth), <<Junk>>}

\* every way the two target files may exist (or not) before the run
FilesOf(c, a) ==
    LET f1 == IF c = <<>> THEN <<>>
              ELSE WithFile(<<>>, opencode_config_path, File(c[1], Permissive))
    IN  IF a = <<>> THEN f1
        ELSE WithFile(f1, opencode_auth_path, File(a[1], Permissive))
InitialFiles ==
    {FilesOf(c, a) : c \in {<<>>} \cup {<<x>> : x \in InitialConfigTexts},
                     a \in {<<>>} \cup {<<x>> : x \in InitialAuthTexts}}

(***************************************************************************)
(* cli.py: _execute_setup and _do_merge_and_write, one statement a step.   *)
(***************************************************************************)
\* faulty variant: both files are read before the locks are taken
ProgramOrderReadsFirst ==
    <<"obtain_key", "discover", "read_config", "read_auth", "lock_config",
      "lock_auth", "merge_config", "merge_auth", "write_config", "write_auth",
      "exit_with">>

\* faulty variant: the config file is read once its own lock is held
ProgramOrderReadBetweenLocks ==
    <<"obtain_key", "discover", "lock_config", "read_config", "lock_auth",
      "read_auth", "merge_config", "merge_auth", "write_config", "write_auth",
      "exit_with">>

\* faulty variant: the auth file is written first
ProgramOrderAuthFirst ==
    <<"obtain_key", "discover", "lock_config", "lock_auth", "read_config",
      "read_auth", "merge_config", "merge_auth", "write_auth", "write_config",
      "exit_with">>

\* the statements of _execute_setup and _do_merge_and_write, in program order
ProgramOrder ==
    <<"obtain_key", "discover", "lock_config", "lock_auth", "read_config",
      "read_auth", "merge_config", "merge_auth", "write_config", "write_auth",
      "exit_with">>
Succ(pos) ==
    ProgramOrder[(CHOOSE i \in DOMAIN ProgramOrder : ProgramOrder[i] = pos) + 1]

\* the path a statement works on
PathOf(pos) ==
    IF pos \in {"lock_config", "read_config", "write_config"}
    THEN opencode_config_path
    ELSE opencode_auth_path

\* faulty variant: an exception goes to the handlers past the with-blocks
RaiseInPastWithBlocks(p, kind) ==
    /\ exc' = [exc EXCEPT ![p] = kind]
    /\ pc' = [pc EXCEPT ![p] = "handlers"]

\* an exception leaves the with-blocks entered so far, then reaches the handlers
RaiseIn(p, kind) ==
    /\ exc' = [exc EXCEPT ![p] = kind]
    /\ pc' = [pc EXCEPT ![p] = IF held[p] = <<>> THEN "handlers" ELSE "exit_with"]

Goto(p, pos) == pc' = [pc EXCEPT ![p] = pos]

\* history: the target files the step of p changed (text, permissions, existence)
Touch(p) ==
    touched' = [touched EXCEPT ![p] =
                   @ \cup {t \in Targets : FileAt(fs', t) # FileAt(fs, t)}]

Start(p) ==
    /\ pc[p] = "idle"
    /\ \E prm \in ParamChoices(p) : params' = [params EXCEPT ![p] = prm]
    /\ Goto(p, ProgramOrder[1])
    /\ UNCHANGED <<platform, fs0, fs, lockHolder, clock, mem, wr, exc, ret, held, bk, mg>>
    /\ Touch(p)

\* lines 187-191
ObtainKey(p) ==
    /\ pc[p] = "obtain_key"
    /\ LET r == _obtain_api_key(params[p])
       IN  IF r.err # "none"
           THEN /\ exc' = [exc EXCEPT ![p] = r.err]
                /\ Goto(p, "handlers")
                /\ UNCHANGED mem
           ELSE /\ mem' = [mem EXCEPT ![p].api_key = r.val]
                /\ Goto(p, Succ(pc[p]))
                /\ UNCHANGED exc
    /\ UNCHANGED <<platform, fs0, fs, lockHolder, clock, params, wr, ret, held, bk, mg>>
    /\ Touch(p)

\* lines 262-267
Discover(p) ==
    /\ pc[p] = "discover"
    /\ LET r == _discover_whitelist_and_models(params[p])
       IN  IF r.err # "none"
           THEN /\ RaiseIn(p, r.err)
                /\ UNCHANGED mem
           ELSE /\ mem' = [mem EXCEPT ![p].found = r.val]
                /\ Goto(p, Succ(pc[p]))
                /\ UNCHANGED exc
    /\ UNCHANGED <<platform, fs0, fs, lockHolder, clock, params, wr, ret, held, bk, mg>>
    /\ Touch(p)

(***************************************************************************)
(* locking.py: file_lock.                                                  *)
(***************************************************************************)
\* faulty variant: a lock that is not exclusive is granted whoever holds it
CanLockShared(lp, p) == lockHolder[lp] \in {0} \cup Procs

\* portalocker.Lock(mode="w", EXCLUSIVE | NON_BLOCKING).acquire(): the lock file
\* is opened (created when missing), locked when no one holds it, then emptied
CanLock(lp, p) == lockHolder[lp] = 0

\* faulty variant: the cleanup unlocks the lock file whoever locked it
release_unconditional(locks, lp, p) == [locks EXCEPT ![lp] = 0]

\* lines 120-124: lock.release() unlocks and closes the handle this Lock object
\* has open, if it has one; another holder's lock is not its to release
release(locks, lp, p) == [locks EXCEPT ![lp] = IF @ = p THEN 0 ELSE @]

AcquireLock(p) ==
    /\ pc[p] \in {"lock_config", "lock_auth"}
    /\ LET lp == lock_path(PathOf(pc[p]))
       IN  /\ CanLock(lp, p)
           /\ lockHolder' = [lockHolder EXCEPT ![lp] = p]
           /\ fs' = WithFile(fs, lp, File(<<>>, IF Exists(fs, lp) THEN fs[lp].mode
                                                ELSE Permissive))
           /\ held' = [held EXCEPT ![p] = Append(@, lp)]
    /\ Goto(p, Succ(pc[p]))
    /\ UNCHANGED <<platform, fs0, clock, params, mem, wr, exc, ret, bk, mg>>
    /\ Touch(p)

\* the lock stayed held by another for the whole timeout: LockException, which
\* file_lock raises as LockError; its finally clause calls lock.release()
LockTimeout(p) ==
    /\ pc[p] \in {"lock_config", "lock_auth"}
    /\ LET lp == lock_path(PathOf(pc[p]))
       IN  /\ lockHolder[lp] # 0
           /\ fs' = IF Exists(fs, lp) THEN fs
                    ELSE WithFile(fs, lp, File(<<>>, Permissive))
           /\ lockHolder' = release(lockHolder, lp, p)
    /\ RaiseIn(p, "LockError")
    /\ UNCHANGED <<platform, fs0, clock, params, mem, wr, ret, held, bk, mg>>
    /\ Touch(p)

\* lock_path.parent.mkdir or the opening of the lock file fails
LockOsError(p) ==
    /\ pc[p] \in {"lock_config", "lock_auth"}
    /\ RaiseIn(p, "OSError")
    /\ UNCHANGED <<platform, fs0, fs, lockHolder, clock, params, mem, wr, ret, held, bk, mg>>
    /\ Touch(p)

\* line 122: with suppress(LockException): a LockException of lock.release()
\* is dropped, and the exception in flight (or none) goes on
suppress(in_flight, raised) == in_flight

\* leaving a with-block: the finally clause of file_lock releases its lock; the
\* handle is closed, at the latest with the Lock object, also when unlocking
\* raised
ExitWith(p) ==
    /\ pc[p] = "exit_with"
    /\ held[p] # <<>>
    /\ \E raised \in {"none", "LockException"} :
         exc' = [exc EXCEPT ![p] = suppress(@, raised)]
    /\ LET lp == held[p][Len(held[p])]
           rest == SubSeq(held[p], 1, Len(held[p]) - 1)
       IN  /\ lockHolder' = release(lockHolder, lp, p)
           /\ held' = [held EXCEPT ![p] = rest]
           /\ Goto(p, IF rest = <<>> THEN "handlers" ELSE "exit_with")
    /\ UNCHANGED <<platform, fs0, fs, clock, params, mem, wr, ret, bk, mg>>
    /\ Touch(p)

\* lines 193-210: the except clauses and the return
Handlers(p) ==
    /\ pc[p] = "handlers"
    /\ IF exc[p] = "none" \/ Caught(exc[p])
       THEN /\ ret' = [ret EXCEPT ![p] = ExitCode(exc[p])]
            /\ Goto(p, "done")
       ELSE /\ Goto(p, "raised")
            /\ UNCHANGED ret
    /\ UNCHANGED <<platform, fs0, fs, lockHolder, clock, params, mem, wr, exc, held, bk, mg>>
    /\ Touch(p)

(***************************************************************************)
(* io.py: read_json_object, as called on lines 270-271 of cli.py.          *)
(***************************************************************************)
\* readable: whether path.read_text succeeds (an OSError otherwise)
read_json_object(files, path, readable) ==
    IF ~Exists(files, path) THEN Ok(Obj(<<>>))
    ELSE IF ~readable THEN Raise("InvalidJsonError")
    ELSE ParseText(files[path].text)

ReadJson(p) ==
    /\ pc[p] \in {"read_config", "read_auth"}
    /\ \E readable \in BOOLEAN :
         LET r == read_json_object(fs, PathOf(pc[p]), readable)
         IN  IF r.err # "none"
             THEN /\ RaiseIn(p, r.err)
                  /\ UNCHANGED mem
             ELSE /\ mem' = IF pc[p] = "read_config"
                            THEN [mem EXCEPT ![p].existing_config = r.val]
                            ELSE [mem EXCEPT ![p].existing_auth = r.val]
                  /\ Goto(p, Succ(pc[p]))
                  /\ UNCHANGED exc
    /\ UNCHANGED <<platform, fs0, fs, lockHolder, clock, params, wr, ret, held, bk, mg>>
    /\ Touch(p)

\* lines 273-282
MergeConfig(p) ==
    /\ pc[p] = "merge_config"
    /\ LET r == merge_config(mem[p].existing_config, params[p].provider_id,
                             mem[p].found.name, mem[p].found.whitelist,
                             params[p].disabled_providers)
       IN  IF r.err # "none"
           THEN /\ RaiseIn(p, r.err)
                /\ UNCHANGED mem
           ELSE /\ mem' = [mem EXCEPT ![p].new_config = r.val]
                /\ Goto(p, Succ(pc[p]))
                /\ UNCHANGED exc
    /\ UNCHANGED <<platform, fs0, fs, lockHolder, clock, params, wr, ret, held, bk, mg>>
    /\ Touch(p)

\* lines 283-287
MergeAuth(p) ==
    /\ pc[p] = "merge_auth"
    /\ LET r == merge_auth(mem[p].existing_auth, params[p].provider_id,
                           mem[p].api_key.s)
       IN  IF r.err # "none"
           THEN /\ RaiseIn(p, r.err)
                /\ UNCHANGED mem
           ELSE /\ mem' = [mem EXCEPT ![p].new_auth = r.val]
                /\ Goto(p, Succ(pc[p]))
                /\ UNCHANGED exc
    /\ UNCHANGED <<platform, fs0, fs, lockHolder, clock, params, wr, ret, held, bk, mg>>
    /\ Touch(p)

(***************************************************************************)
(* io.py: atomic_write_json, one system call a step.                       *)
(***************************************************************************)
\* number of names mkstemp can draw in a directory
NumTmpNames == 2

\* the permissions of a file the process creates: mkstemp and os.open(.., 0o600)
\* give 0o600 on POSIX; on Windows the file inherits the directory's ACL
CreateMode(plat) == IF plat = "win32" THEN Permissive ELSE OwnerOnly

\* faulty variant: the content is written to the target itself
mkstemp_in_place(path, r) == path

\* tempfile.mkstemp(dir=path.parent, prefix=".tmp_", suffix=".json")
mkstemp_path(path, r) == MkPath(path.dir, ".tmp_", "tmp", 0, r)

\* lines 139-145: serialize, create the parent directory
WriteEnter(p) ==
    /\ pc[p] \in {"write_config", "write_auth"}
    /\ wr[p].step = "none"
    /\ wr' = [wr EXCEPT ![p] =
                [NoWrite EXCEPT
                   !.step = "mkstemp",
                   !.path = PathOf(pc[p]),
                   !.encoded = Serialize(IF pc[p] = "write_config"
                                         THEN mem[p].new_config
                                         ELSE mem[p].new_auth),
                   !.secure = (pc[p] = "write_auth")]]
    /\ UNCHANGED <<platform, fs0, fs, lockHolder, clock, pc, params, mem, exc, ret,
                   held, bk, mg>>
    /\ Touch(p)

\* lines 147-151
WriteMkstemp(p) ==
    /\ wr[p].step = "mkstemp"
    /\ \E r \in 1..NumTmpNames :
         LET tp == mkstemp_path(wr[p].path, r)
         IN  /\ ~Exists(fs, tp)
             /\ fs' = WithFile(fs, tp, File(<<>>, CreateMode(platform)))
             /\ wr' = [wr EXCEPT ![p].step = "write", ![p].tmp = tp, ![p].fd = TRUE,
                                 ![p].made = tp]
    /\ UNCHANGED <<platform, fs0, lockHolder, clock, pc, params, mem, exc, ret, held, bk, mg>>
    /\ Touch(p)

\* lines 153-155: os.write may write only a part of what is left
WriteChunk(p) ==
    /\ wr[p].step = "write"
    /\ wr[p].written < Len(wr[p].encoded)
    /\ \E n \in 1..(Len(wr[p].encoded) - wr[p].written) :
         /\ fs' = [fs EXCEPT ![wr[p].tmp].text =
                      @ \o SubSeq(wr[p].encoded, wr[p].written + 1,
                                  wr[p].written + n)]
         /\ wr' = [wr EXCEPT ![p].written = @ + n]
    /\ UNCHANGED <<platform, fs0, lockHolder, clock, pc, params, mem, exc, ret, held, bk, mg>>
    /\ Touch(p)

\* lines 156-158: fsync, close, fd = -1
WriteFsync(p) ==
    /\ wr[p].step = "write"
    /\ wr[p].written >= Len(wr[p].encoded)
    /\ wr' = [wr EXCEPT ![p].step = "replace", ![p].fd = FALSE]
    /\ UNCHANGED <<platform, fs0, fs, lockHolder, clock, pc, params, mem, exc, ret,
                   held, bk, mg>>
    /\ Touch(p)

\* faulty variant: the destination gets a copy and the source stays
_atomic_replace_by_copy(files, src, dst) == WithFile(files, dst, files[src])

\* _atomic_replace: Path(src).replace(dst) moves the file, with its permissions
_atomic_replace(files, src, dst) == Without(WithFile(files, dst, files[src]), src)

\* lines 160-161
WriteReplace(p) ==
    /\ wr[p].step = "replace"
    /\ fs' = _atomic_replace(fs, wr[p].tmp, wr[p].path)
    /\ wr' = [wr EXCEPT ![p].step = IF wr[p].secure THEN "restrict" ELSE "finally",
                        ![p].tmp = NoPath]
    /\ UNCHANGED <<platform, fs0, lockHolder, clock, pc, params, mem, exc, ret, held, bk, mg>>
    /\ Touch(p)

\* faulty variant: the permissions are left as they are
restrict_permissions_skipped(files, path) == files

\* restrict_permissions: chmod 0o600, or an ACL for the current user only
\* (GetUserNameW gives a non-empty name when it succeeds, so the early return
\* of _restrict_windows_acl is not taken)
restrict_permissions(files, path) == [files EXCEPT ![path].mode = OwnerOnly]

\* lines 163-164: restrict_permissions(path, strict=True) succeeds
WriteRestrict(p) ==
    /\ wr[p].step = "restrict"
    /\ fs' = restrict_permissions(fs, wr[p].path)
    /\ wr' = [wr EXCEPT ![p].step = "finally"]
    /\ UNCHANGED <<platform, fs0, lockHolder, clock, pc, params, mem, exc, ret, held, bk, mg>>
    /\ Touch(p)

\* faulty variant: a failed restriction is logged whatever strict is
restrict_failure_logged(strict) == "none"

\* restrict_permissions when chmod or the ACL call fails: `except OSError: if
\* strict: raise`, and a debug log entry otherwise
restrict_failure(strict) == IF strict THEN "OSError" ELSE "none"

\* a system call of lines 142-164 raises OSError: mkdir, mkstemp, os.write,
\* os.fsync, the replace, or the permission restriction, which line 164 calls
\* with strict=True
WriteFail(p) ==
    /\ wr[p].step \in {"mkstemp", "write", "replace", "restrict"}
    /\ wr' = [wr EXCEPT ![p].step = "finally",
                        ![p].err = IF wr[p].step = "restrict"
                                   THEN restrict_failure(TRUE)
                                   ELSE "OSError"]
    /\ UNCHANGED <<platform, fs0, fs, lockHolder, clock, pc, params, mem, exc, ret,
                   held, bk, mg>>
    /\ Touch(p)

\* lines 166-170: close the descriptor, remove the temporary file (_cleanup_tmp
\* ignores an OSError of unlink), then return or let the error propagate
WriteFinally(p) ==
    /\ wr[p].step = "finally"
    /\ \E unlinked \in BOOLEAN :
         /\ (wr[p].tmp = NoPath) => unlinked
         /\ fs' = IF wr[p].tmp # NoPath /\ unlinked THEN Without(fs, wr[p].tmp)
                  ELSE fs
    /\ wr' = [wr EXCEPT ![p] = NoWrite]
    /\ IF wr[p].err = "none"
       THEN /\ Goto(p, Succ(pc[p]))
            /\ UNCHANGED exc
       ELSE RaiseIn(p, wr[p].err)
    /\ UNCHANGED <<platform, fs0, lockHolder, clock, params, mem, ret, held, bk, mg>>
    /\ Touch(p)

(***************************************************************************)
(* locking.py: backup_file, called by a driver (no statement of cli.py     *)
(* calls it).                                                              *)
(***************************************************************************)
\* number of values secrets.token_hex(2) can take in the model
NumRandSuffixes == 2

\* f"{path.name}.{ts}_{rand}.bak" in path.parent
backup_name(path, ts, rand) == MkPath(path.dir, path.base, "bak", ts, rand)

\* lines 54-58: the name, from the clock and the random suffix
BackupCall ==
    /\ bk.step = "idle"
    /\ bk.calls < MaxBackups
    /\ \E path \in Targets, rand \in 1..NumRandSuffixes :
         /\ Exists(fs, path)
         /\ bk' = [bk EXCEPT !.step = IF platform = "win32" THEN "copy2" ELSE "open",
                             !.path = path,
                             !.backup_path = backup_name(path, clock, rand),
                             !.content = <<>>,
                             !.err = "none",
                             !.calls = @ + 1]
    /\ UNCHANGED <<platform, fs0, fs, clock, setupVars, mg>>

\* lines 66-70: os.open(O_CREAT | O_EXCL | O_WRONLY, 0o600)
BackupOpen ==
    /\ bk.step = "open"
    /\ IF Exists(fs, bk.backup_path)
       THEN /\ bk' = [bk EXCEPT !.step = "idle", !.err = "FileExistsError"]
            /\ UNCHANGED fs
       ELSE /\ fs' = WithFile(fs, bk.backup_path, File(<<>>, OwnerOnly))
            /\ bk' = [bk EXCEPT !.step = "write", !.fd = TRUE]
    /\ UNCHANGED <<platform, fs0, clock, setupVars, mg>>

\* lines 72-73: content = path.read_bytes(); os.write(fd, content), once: the
\* call may write only a part of the content
BackupWrite ==
    /\ bk.step = "write"
    /\ LET content == fs[bk.path].text
       IN  \E n \in (IF content = <<>> THEN {0} ELSE 1..Len(content)) :
             /\ fs' = [fs EXCEPT ![bk.backup_path].text = SubSeq(content, 1, n)]
             /\ bk' = [bk EXCEPT !.step = "close", !.content = content]
    /\ UNCHANGED <<platform, fs0, clock, setupVars, mg>>

\* lines 74-75: finally os.close(fd)
BackupClose ==
    /\ bk.step = "close"
    /\ bk' = [bk EXCEPT !.step = "copystat", !.fd = FALSE]
    /\ UNCHANGED <<platform, fs0, fs, clock, setupVars, mg>>

\* shutil.copystat(src, dst): the permission bits (and times) of src, on dst
copystat(files, src, dst) == [files EXCEPT ![dst].mode = files[src].mode]

\* lines 77-79
BackupCopystat ==
    /\ bk.step = "copystat"
    /\ fs' = copystat(fs, bk.path, bk.backup_path)
    /\ bk' = [bk EXCEPT !.step = "idle", !.returned = @ \cup {bk.backup_path}]
    /\ UNCHANGED <<platform, fs0, clock, setupVars, mg>>

\* line 62: shutil.copy2 writes the destination, existing or not
BackupCopy2 ==
    /\ bk.step = "copy2"
    /\ fs' = WithFile(fs, bk.backup_path, File(fs[bk.path].text, Permissive))
    /\ bk' = [bk EXCEPT !.step = "restrict", !.content = fs[bk.path].text]
    /\ UNCHANGED <<platform, fs0, clock, setupVars, mg>>

\* line 63: restrict_permissions(backup_path), not strict: a failure is logged
BackupRestrict ==
    /\ bk.step = "restrict"
    /\ \E ok \in BOOLEAN :
         /\ fs' = IF ok THEN restrict_permissions(fs, bk.backup_path) ELSE fs
         /\ bk' = [bk EXCEPT !.step = "idle",
                             !.returned = @ \cup {bk.backup_path},
                             !.err = IF ok THEN "none" ELSE restrict_failure(FALSE)]
    /\ UNCHANGED <<platform, fs0, clock, setupVars, mg>>

\* time passes between two calls
Tick ==
    /\ bk.step = "idle"
    /\ clock < MaxClock
    /\ clock' = clock + 1
    /\ UNCHANGED <<platform, fs0, fs, bk, setupVars, mg>>

(***************************************************************************)
(* Specifications.                                                         *)
(***************************************************************************)
LockPaths == {lock_path(t) : t \in Targets}

Init ==
    /\ platform \in {"posix", "win32"}
    /\ fs \in InitialFiles
    /\ fs0 = fs
    /\ lockHolder = [lp \in LockPaths |-> 0]
    /\ clock = 0
    /\ pc = [p \in Procs |-> "idle"]
    /\ params = [p \in Procs |-> NoParams]
    /\ mem = [p \in Procs |-> NoMem]
    /\ wr = [p \in Procs |-> NoWrite]
    /\ exc = [p \in Procs |-> "none"]
    /\ ret = [p \in Procs |-> NoExit]
    /\ held = [p \in Procs |-> <<>>]
    /\ touched = [p \in Procs |-> {}]
    /\ bk = NoBackup
    /\ mg = NoMerge

Step(p) ==
    \/ Start(p)
    \/ ObtainKey(p)
    \/ Discover(p)
    \/ AcquireLock(p)
    \/ LockTimeout(p)
    \/ LockOsError(p)
    \/ ReadJson(p)
    \/ MergeConfig(p)
    \/ MergeAuth(p)
    \/ WriteEnter(p)
    \/ WriteMkstemp(p)
    \/ WriteChunk(p)
    \/ WriteFsync(p)
    \/ WriteReplace(p)
    \/ WriteRestrict(p)
    \/ WriteFail(p)
    \/ WriteFinally(p)
    \/ ExitWith(p)
    \/ Handlers(p)

Next == \E p \in Procs : Step(p)

Spec == Init /\ [][Next]_vars

\* every invocation that can take a step eventually takes one: a lock holder
\* keeps running, and a waiting invocation's acquire call returns or times out
SpecFair == Spec /\ \A p \in Procs : WF_vars(Step(p))

\* the backup driver alone, on target files that exist with either permissions
InitBackup ==
    /\ platform \in {"posix", "win32"}
    /\ \E mc \in {OwnerOnly, Permissive}, ma \in {OwnerOnly, Permissive} :
         fs = WithFile(WithFile(<<>>, opencode_config_path,
                                File(Serialize(ExistingConfig), mc)),
                       opencode_auth_path, File(Serialize(ExistingAuth), ma))
    /\ fs0 = fs
    /\ lockHolder = [lp \in LockPaths |-> 0]
    /\ clock = 0
    /\ pc = [p \in Procs |-> "off"]
    /\ params = [p \in Procs |-> NoParams]
    /\ mem = [p \in Procs |-> NoMem]
    /\ wr = [p \in Procs |-> NoWrite]
    /\ exc = [p \in Procs |-> "none"]
    /\ ret = [p \in Procs |-> NoExit]
    /\ held = [p \in Procs |-> <<>>]
    /\ touched = [p \in Procs |-> {}]
    /\ bk = [NoBackup EXCEPT !.step = "idle"]
    /\ mg = NoMerge

NextBackup ==
    \/ BackupCall
    \/ BackupOpen
    \/ BackupWrite
    \/ BackupClose
    \/ BackupCopystat
    \/ BackupCopy2
    \/ BackupRestrict
    \/ Tick

SpecBackup == InitBackup /\ [][NextBackup]_vars

(***************************************************************************)
(* merge.py on the objects of the interpreter: a dict and a list are       *)
(* mutable objects that variables and containers refer to, a string is a   *)
(* value.  The caller keeps its reference to the document it passed.       *)
(***************************************************************************)
\* number of consecutive calls the caller makes
MaxMergeCalls == 2

Ref(n) == [t |-> "ref", id |-> n]
IsRef(slot) == slot.t = "ref"

\* json.loads: the objects of a document, children first; the heap is the
\* sequence of the objects and a reference is an index into it
RECURSIVE Store(_, _)
RECURSIVE StoreAll(_, _, _)
Store(h, v) ==
    IF IsObj(v)
    THEN LET r == StoreAll(h, [i \in DOMAIN v.o |-> v.o[i][2]], <<>>)
         IN  [heap |-> Append(r.heap,
                              Obj([i \in DOMAIN v.o |-> <<v.o[i][1], r.slots[i]>>])),
              slot |-> Ref(Len(r.heap) + 1)]
    ELSE IF IsList(v)
    THEN LET r == StoreAll(h, v.l, <<>>)
         IN  [heap |-> Append(r.heap, List(r.slots)), slot |-> Ref(Len(r.heap) + 1)]
    ELSE [heap |-> h, slot |-> v]
StoreAll(h, vals, acc) ==
    IF vals = <<>> THEN [heap |-> h, slots |-> acc]
    ELSE LET r == Store(h, Head(vals))
         IN  StoreAll(r.heap, Tail(vals), Append(acc, r.slot))

\* the document a reference stands for
RECURSIVE Load(_, _)
Load(h, slot) ==
    IF ~IsRef(slot) THEN slot
    ELSE LET c == h[slot.id]
         IN  IF IsObj(c)
             THEN Obj([i \in DOMAIN c.o |-> <<c.o[i][1], Load(h, c.o[i][2])>>])
             ELSE List([i \in DOMAIN c.l |-> Load(h, c.l[i])])

\* faulty variant: the dict itself is used, no copy is made
dict_alias(h, ref) == [heap |-> h, slot |-> ref]

\* faulty variant: the result starts as an empty dict
dict_fresh(h, ref) == [heap |-> Append(h, Obj(<<>>)), slot |-> Ref(Len(h) + 1)]

\* dict(d): a new dict with the same keys, referring to the same values
dict_copy(h, ref) == [heap |-> Append(h, h[ref.id]), slot |-> Ref(Len(h) + 1)]

\* d[k] = v
dict_setitem(h, ref, k, slot) == [h EXCEPT ![ref.id].o = Put(@, k, slot)]

\* d.get(k)
dict_get(h, ref, k) == IF Has(h[ref.id].o, k) THEN Get(h[ref.id].o, k) ELSE Null

Returned(h, slot) == [heap |-> h, err |-> "none", slot |-> slot]
Raised(h, kind) == [heap |-> h, err |-> kind, slot |-> Null]

\* faulty variant: result.setdefault(provider_id, entry) keeps an entry that
\* is already there
MergeAuthSetdefault(h, existing, provider_id, api_key) ==
    IF provider_id = "" THEN Raised(h, "ValidationError")
    ELSE IF api_key = "" THEN Raised(h, "ValidationError")
    ELSE LET result == dict_copy(h, existing)
             entry == Store(result.heap,
                            Obj(<< <<"type", Str("api")>>, <<"key", Str(api_key)>> >>))
         IN  IF Has(result.heap[result.slot.id].o, provider_id)
             THEN Returned(result.heap, result.slot)
             ELSE Returned(dict_setitem(entry.heap, result.slot, provider_id,
                                        entry.slot),
                           result.slot)

\* merge_auth, lines 74-82
MergeAuthOnHeap(h, existing, provider_id, api_key) ==
    IF provider_id = "" THEN Raised(h, "ValidationError")
    ELSE IF api_key = "" THEN Raised(h, "ValidationError")
    ELSE LET result == dict_copy(h, existing)
             entry == Store(result.heap,
                            Obj(<< <<"type", Str("api")>>, <<"key", Str(api_key)>> >>))
         IN  Returned(dict_setitem(entry.heap, result.slot, provider_id, entry.slot),
                      result.slot)

\* merge_config, lines 108-141
MergeConfigOnHeap(h, existing, provider_id, resource_name, whitelist, disabled_providers) ==
    IF provider_id = "" THEN Raised(h, "ValidationError")
    ELSE IF validate_resource_name_raises(resource_name)
    THEN Raised(h, "ValidationError")
    ELSE LET result == dict_copy(h, existing)
             merged_dp == _merge_disabled_providers(
                              Load(result.heap,
                                   dict_get(result.heap, result.slot,
                                            "disabled_providers")),
                              disabled_providers)
         IN  IF merged_dp.err # "none" THEN Raised(result.heap, merged_dp.err)
             ELSE LET dp == Store(result.heap, StrList(merged_dp.val))
                      h1 == dict_setitem(dp.heap, result.slot, "disabled_providers",
                                         dp.slot)
                      existing_providers == dict_get(h1, result.slot, "provider")
                      providers ==
                          IF IsRef(existing_providers)
                             /\ IsObj(h1[existing_providers.id])
                          THEN dict_copy(h1, existing_providers)
                          ELSE Store(h1, Obj(<<>>))
                      block == Store(providers.heap,
                                     ProviderBlock(provider_id, resource_name,
                                                   whitelist))
                      h2 == dict_setitem(block.heap, providers.slot, provider_id,
                                         block.slot)
                  IN  Returned(dict_setitem(h2, result.slot, "provider",
                                            providers.slot),
                               result.slot)

\* the documents the caller starts from
MergeAuthDocs ==
    {Obj(<<>>),
     ExistingAuth,
     Obj(<< <<"azure", Str("legacy")>>,
            <<"note", List(<<Str("x"), Null>>)>>,
            <<"github-copilot", Obj(<< <<"type", Str("oauth")>> >>)>> >>)}
MergeConfigDocs ==
    {Obj(<<>>),
     ExistingConfig,
     Obj(<< <<"disabled_providers", Str("azure")>>, <<"theme", Str("dark")>> >>),
     Obj(<< <<"disabled_providers", List(<<Str("x"), Null>>)>> >>),
     Obj(<< <<"provider", Str("none")>>, <<"disabled_providers", Null>>,
            <<"keybinds", Obj(<< <<"quit", List(<<Str("q")>>)>> >>)>> >>),
     Obj(<< <<"provider",
              Obj(<< <<"azure", Obj(<< <<"models", Obj(<<>>)>> >>)>>,
                     <<"other", OtherProvider>> >>)>>,
            <<"disabled_providers", StrList(<<"azure", "x">>)>> >>)}

\* the arguments the caller passes
MergeProviderIds == {"", "azure", "github-copilot"}
MergeApiKeys == {"", "sk-1", "sk-2"}
MergeResourceNames == {<<"a">>, <<"a", ".", "b">>}
MergeWhitelists == {<<>>, <<"gpt-4o", "o3", "gpt-4o">>}
MergeDisabledLists == {<<>>, <<"x", "azure", "x">>, <<"m", "azure", "b">>}

\* one call: the document before, the document the caller's reference stands
\* for after the call, and what the call returned or raised
Called(fn, args, h, existing, r) ==
    [fn |-> fn, args |-> args, before |-> Load(h, existing),
     after |-> Load(r.heap, existing), err |-> r.err,
     val |-> IF r.err = "none" THEN Load(r.heap, r.slot) ELSE Null]

CallMergeAuth ==
    /\ mg.step = "ready"
    /\ mg.kind = "auth"
    /\ Len(mg.hist) < MaxMergeCalls
    /\ \E provider_id \in MergeProviderIds, api_key \in MergeApiKeys :
         LET r == MergeAuthOnHeap(mg.heap, mg.doc, provider_id, api_key)
         IN  mg' = [mg EXCEPT
                      !.heap = r.heap,
                      !.doc = IF r.err = "none" THEN r.slot ELSE @,
                      !.hist = Append(@, Called("merge_auth",
                                                <<provider_id, api_key>>,
                                                mg.heap, mg.doc, r))]
    /\ UNCHANGED <<platform, fs0, fs, clock, bk, setupVars>>

CallMergeConfig ==
    /\ mg.step = "ready"
    /\ mg.kind = "config"
    /\ Len(mg.hist) < MaxMergeCalls
    /\ \E provider_id \in MergeProviderIds, resource_name \in MergeResourceNames,
          whitelist \in MergeWhitelists, disabled_providers \in MergeDisabledLists :
         LET r == MergeConfigOnHeap(mg.heap, mg.doc, provider_id, resource_name,
                                    whitelist, disabled_providers)
         IN  mg' = [mg EXCEPT
                      !.heap = r.heap,
                      !.doc = IF r.err = "none" THEN r.slot ELSE @,
                      !.hist = Append(@, Called("merge_config",
                                                <<provider_id, resource_name,
                                                  whitelist, disabled_providers>>,
                                                mg.heap, mg.doc, r))]
    /\ UNCHANGED <<platform, fs0, fs, clock, bk, setupVars>>

\* the caller of the merges alone, on a parsed document
InitMerge ==
    /\ platform = "posix"
    /\ fs = <<>>
    /\ fs0 = fs
    /\ lockHolder = [lp \in LockPaths |-> 0]
    /\ clock = 0
    /\ pc = [p \in Procs |-> "off"]
    /\ params = [p \in Procs |-> NoParams]
    /\ mem = [p \in Procs |-> NoMem]
    /\ wr = [p \in Procs |-> NoWrite]
    /\ exc = [p \in Procs |-> "none"]
    /\ ret = [p \in Procs |-> NoExit]
    /\ held = [p \in Procs |-> <<>>]
    /\ touched = [p \in Procs |-> {}]
    /\ bk = NoBackup
    /\ \E kind \in {"auth", "config"} :
         \E d \in IF kind = "auth" THEN MergeAuthDocs ELSE MergeConfigDocs :
            LET r == Store(<<>>, d)
            IN  mg = [NoMerge EXCEPT !.step = "ready", !.kind = kind,
                                     !.heap = r.heap, !.doc = r.slot]

NextMerge ==
    \/ CallMergeAuth
    \/ CallMergeConfig

SpecMerge == InitMerge /\ [][NextMerge]_vars

(***************************************************************************)
(* The functions of merge.py and io.py called on their own, as the unit    *)
(* tests call them; mg.hist is the log of the calls.                       *)
(***************************************************************************)
\* length of the short resource names the caller tries
MaxNameLen == 3

\* characters a caller may put in a resource name
NameChars == AlnumChars \cup {HyphenChar, NewlineChar, ".", "/", " ", "@", ":"}

\* the names the caller tries: every short one, and long ones around the limit
ResourceNames ==
    UNION {[1..n -> NameChars] : n \in 0..MaxNameLen}
    \cup {[i \in 1..n |-> "a"] : n \in {MaxInterior + 2, MaxInterior + 3}}
    \cup {[i \in 1..(MaxInterior + 2) |-> "a"] \o <<c>> : c \in {NewlineChar, HyphenChar}}
    \cup {[i \in 1..(MaxInterior + 2) |-> IF i = 2 THEN HyphenChar ELSE "R"]}

\* validate_resource_name(name), and merge_config({}, "p", name, [], [])
CallValidateResourceName ==
    /\ mg.step = "ready"
    /\ mg.kind = "functions"
    /\ mg.hist = <<>>
    /\ \E name \in ResourceNames :
         mg' = [mg EXCEPT
                  !.hist = Append(@,
                      [fn |-> "validate_resource_name", args |-> <<name>>,
                       err |-> IF validate_resource_name_raises(name)
                               THEN "ValidationError" ELSE "none",
                       val |-> merge_config(Obj(<<>>), "p", name, <<>>, <<>>)])]
    /\ UNCHANGED <<platform, fs0, fs, clock, bk, setupVars>>

\* the files read_json_object is called on: the bytes, what they hold, and
\* for a JSON object the document
ReadCases ==
    LET ReadCase(text, holds, doc) == [text |-> text, holds |-> holds, doc |-> doc]
    IN
    {ReadCase(Serialize(ExistingConfig), "object", ExistingConfig),
     ReadCase(Serialize(Obj(<<>>)), "object", Obj(<<>>)),
     ReadCase(<<LBrace, Member("key", Str("value")), RBrace>>, "object",
              Obj(<< <<"key", Str("value")>> >>)),
     ReadCase(<<Scalar(List(<<Str("1"), Str("2")>>))>>, "array", Null),
     ReadCase(<<Scalar(Str("just a string"))>>, "string", Null),
     ReadCase(<<Scalar(Null), Newline>>, "null", Null),
     ReadCase(<<LBrace, Junk>>, "not json", Null),
     ReadCase(<<>>, "not json", Null),
     ReadCase(<<LBrace, Member("key", Str("value")), BadByte, RBrace>>, "not json", Null)}

\* read_json_object(path), the path absent, unreadable, or a file with the
\* bytes of a case, as they are or after a byte-order mark
CallReadJsonObject ==
    /\ mg.step = "ready"
    /\ mg.kind = "functions"
    /\ mg.hist = <<>>
    /\ \E case \in ReadCases, bom \in BOOLEAN, exists \in BOOLEAN, readable \in BOOLEAN :
         LET path == opencode_config_path
             text == IF bom THEN <<BOM>> \o case.text ELSE case.text
             files == IF exists THEN WithFile(<<>>, path, File(text, Permissive))
                      ELSE <<>>
             r == read_json_object(files, path, readable)
         IN  mg' = [mg EXCEPT
                      !.hist = Append(@,
                          [fn |-> "read_json_object",
                           args |-> <<case, bom, exists, readable>>,
                           err |-> r.err, val |-> r.val])]
    /\ UNCHANGED <<platform, fs0, fs, clock, bk, setupVars>>

\* a key as os.environ gives it when the variable holds a byte that is not
\* UTF-8: a string with a lone surrogate, which str.encode("utf-8") refuses
UnencodableKey == "sk-\\udcff"
SetupKeys == {"sk-1", "sk-2", UnencodableKey}

\* content.encode("utf-8") of atomic_write_json raises UnicodeEncodeError
encode_raises(doc) ==
    \E i \in DOMAIN doc.o :
       /\ IsObj(doc.o[i][2])
       /\ Has(doc.o[i][2].o, "key")
       /\ Get(doc.o[i][2].o, "key") = Str(UnencodableKey)

\* what can go wrong in the environment of one invocation
SetupFaults == {"none", "lock", "read", "write_config", "write_auth", "restrict"}

\* atomic_write_json(path, doc, secure) as one step: the error it raises, the
\* files after it, and what the error's message quotes
atomic_write_json(files, path, doc, secure, fault) ==
    IF encode_raises(doc)
    THEN [err |-> "UnicodeEncodeError", files |-> files, says |-> <<"\\udcff">>]
    ELSE IF fault = "write"
    THEN [err |-> "OSError", files |-> files, says |-> <<path.base>>]
    ELSE LET replaced == WithFile(files, path,
                                  File(Serialize(doc), CreateMode(platform)))
         IN  IF ~secure THEN [err |-> "none", files |-> replaced, says |-> <<>>]
             ELSE IF fault = "restrict"
             THEN [err |-> restrict_failure(TRUE), files |-> replaced,
                   says |-> <<path.base>>]
             ELSE [err |-> "none", files |-> restrict_permissions(replaced, path),
                   says |-> <<>>]

\* _execute_setup up to the reads of _do_merge_and_write, twice on the same
\* files, with the same parameters and the same environment, but for the value
\* of the key: what each invocation obtains, discovers and reads (what it
\* reads counts only if it gets as far as reading)
CallExecuteSetup ==
    /\ mg.step = "ready"
    /\ mg.kind = "functions"
    /\ mg.hist = <<>>
    /\ \E files \in InitialFiles, prm \in ParamChoices(1), fault \in SetupFaults,
          k1 \in SetupKeys, k2 \in SetupKeys :
         /\ prm.api_key # ""
         /\ LET Run(api_key) ==
                    [key |-> _obtain_api_key([prm EXCEPT !.api_key = api_key]),
                     found |-> _discover_whitelist_and_models(prm),
                     existing_config |-> read_json_object(files, opencode_config_path,
                                                          fault # "read"),
                     existing_auth |-> read_json_object(files, opencode_auth_path, TRUE),
                     new_config |-> Ok(Null),
                     new_auth |-> Ok(Null)]
            IN  mg' = [mg EXCEPT
                         !.step = "setup_merge",
                         !.doc = [args |-> <<files, prm, fault, k1, k2>>,
                                  runs |-> <<Run(k1), Run(k2)>>]]
    /\ UNCHANGED <<platform, fs0, fs, clock, bk, setupVars>>

\* merge_config and merge_auth of _do_merge_and_write, in each invocation that
\* got that far
SetupMerge ==
    /\ mg.step = "setup_merge"
    /\ mg.kind = "functions"
    /\ LET prm == mg.doc.args[2]
           fault == mg.doc.args[3]
           \* an error has ended the invocation before its merges
           Failed(run) ==
               \/ run.key.err # "none"
               \/ run.found.err # "none"
               \/ fault = "lock"
               \/ run.existing_config.err # "none"
               \/ run.existing_auth.err # "none"
           Merged(run) ==
               IF Failed(run) THEN run
               ELSE [run EXCEPT
                       !.new_config = merge_config(run.existing_config.val,
                                                   prm.provider_id, run.found.val.name,
                                                   run.found.val.whitelist,
                                                   prm.disabled_providers),
                       !.new_auth = merge_auth(run.existing_auth.val, prm.provider_id,
                                               run.key.val.s)]
       IN  mg' = [mg EXCEPT
                    !.step = "setup_write",
                    !.doc = [@ EXCEPT !.runs = <<Merged(@[1]), Merged(@[2])>>]]
    /\ UNCHANGED <<platform, fs0, fs, clock, bk, setupVars>>

\* _do_merge_and_write from what the invocation has read and merged: the
\* error that leaves it, what its message quotes, and the files after its
\* two writes
_do_merge_and_write(files, prm, run, fault) ==
    LET Fails(kind, says) == [err |-> kind, files |-> files, says |-> says]
        w1 == atomic_write_json(files, opencode_config_path, run.new_config.val, FALSE,
                                IF fault = "write_config" THEN "write" ELSE "none")
        w2 == atomic_write_json(w1.files, opencode_auth_path, run.new_auth.val, TRUE,
                                CASE fault = "write_auth" -> "write"
                                  [] fault = "restrict" -> "restrict"
                                  [] OTHER -> "none")
    IN  IF run.found.err # "none" THEN Fails(run.found.err, prm.whitelist)
        ELSE IF fault = "lock" THEN Fails("LockError", <<"opencode.json">>)
        ELSE IF run.existing_config.err # "none"
        THEN Fails(run.existing_config.err, <<"opencode.json">>)
        ELSE IF run.existing_auth.err # "none"
        THEN Fails(run.existing_auth.err, <<"auth.json">>)
        ELSE IF run.new_config.err # "none"
        THEN Fails(run.new_config.err, prm.resource_name)
        ELSE IF run.new_auth.err # "none"
        THEN Fails(run.new_auth.err, <<"provider_id">>)
        ELSE IF w1.err # "none" THEN w1
        ELSE w2

\* _execute_setup: the exit code (or the exception that leaves it, with the
\* traceback on stderr), the lines on stdout and stderr, and the files
_execute_setup(prm, r) ==
    [ret |-> IF r.err = "none" \/ Caught(r.err) THEN ExitCode(r.err) ELSE NoExit,
     raised |-> IF r.err = "none" \/ Caught(r.err) THEN "none" ELSE r.err,
     stdout |-> IF r.err = "none"
                THEN <<"Configured", prm.provider_id, "opencode.json", "auth.json">>
                ELSE <<>>,
     stderr |-> IF r.err = "none" THEN <<>> ELSE <<r.err>> \o r.says,
     files |-> r.files]

\* the two writes of _do_merge_and_write and the return of _execute_setup, in
\* each invocation; the call is logged with the outcome of both
SetupWrite ==
    /\ mg.step = "setup_write"
    /\ mg.kind = "functions"
    /\ LET files == mg.doc.args[1]
           prm == mg.doc.args[2]
           fault == mg.doc.args[3]
           Outcome(run) ==
               IF run.key.err # "none"
               THEN [err |-> run.key.err, files |-> files, says |-> <<"api_key">>]
               ELSE _do_merge_and_write(files, prm, run, fault)
       IN  mg' = [mg EXCEPT
                    !.step = "ready",
                    !.doc = Null,
                    !.hist = Append(@,
                        [fn |-> "_execute_setup",
                         args |-> mg.doc.args,
                         err |-> "none",
                         val |-> <<_execute_setup(prm, Outcome(mg.doc.runs[1])),
                                   _execute_setup(prm, Outcome(mg.doc.runs[2]))>>])]
    /\ UNCHANGED <<platform, fs0, fs, clock, bk, setupVars>>

InitFunctions ==
    /\ platform \in {"posix", "win32"}
    /\ fs = <<>>
    /\ fs0 = fs
    /\ lockHolder = [lp \in LockPaths |-> 0]
    /\ clock = 0
    /\ pc = [p \in Procs |-> "off"]
    /\ params = [p \in Procs |-> NoParams]
    /\ mem = [p \in Procs |-> NoMem]
    /\ wr = [p \in Procs |-> NoWrite]
    /\ exc = [p \in Procs |-> "none"]
    /\ ret = [p \in Procs |-> NoExit]
    /\ held = [p \in Procs |-> <<>>]
    /\ touched = [p \in Procs |-> {}]
    /\ bk = NoBackup
    /\ mg = [NoMerge EXCEPT !.step = "ready", !.kind = "functions"]

NextFunctions ==
    \/ CallValidateResourceName
    \/ CallReadJsonObject
    \/ CallExecuteSetup
    \/ SetupMerge
    \/ SetupWrite

SpecFunctions == InitFunctions /\ [][NextFunctions]_vars

(***************************************************************************)
(* Properties.                                                             *)
(***************************************************************************)
\* p is inside the body of its with file_lock block on the lock file lp
InBody(p, lp) == \E i \in DOMAIN held[p] : held[p][i] = lp
Ended(p) == pc[p] \in {"done", "raised"}

\* C1: mutual exclusion: at no time are two invocations inside the body of a
\* with file_lock(P) block for the same target P
C1_MutualExclusion ==
    \A lp \in LockPaths : \A p \in Procs, q \in Procs :
        (p # q) => ~(InBody(p, lp) /\ InBody(q, lp))

\* an invocation is inside the config lock while another one waits for it
C1_Witness ==
    \E p \in Procs, q \in Procs :
        /\ p # q
        /\ InBody(p, lock_path(opencode_config_path))
        /\ pc[q] = "lock_config"

\* the files after one successful setup invocation with the inputs prm, alone
SoloSetup(files, prm) ==
    LET found == _discover_whitelist_and_models(prm).val
        cfg == read_json_object(files, opencode_config_path, TRUE).val
        auth == read_json_object(files, opencode_auth_path, TRUE).val
        newc == merge_config(cfg, prm.provider_id, found.name, found.whitelist,
                             prm.disabled_providers).val
        newa == merge_auth(auth, prm.provider_id, prm.api_key).val
    IN  WithFile(WithFile(files, opencode_config_path,
                          File(Serialize(newc), OwnerOnly)),
                 opencode_auth_path, File(Serialize(newa), OwnerOnly))

RECURSIVE SerialRun(_, _, _)
SerialRun(files, order, i) ==
    IF i > Len(order) THEN files
    ELSE SerialRun(SoloSetup(files, params[order[i]]), order, i + 1)

Orders == {o \in [1..NumProcs -> Procs] : \A i, j \in 1..NumProcs :
                                             (i # j) => (o[i] # o[j])}

\* the document a target file holds
DocAt(files, path) == read_json_object(files, path, TRUE).val

\* C2: no lost update: when every invocation has ended with exit code 0, both
\* files hold what the invocations give when run one after another in one
\* order; the auth document holds every invocation's entry, the config document
\* every invocation's provider block and disabled providers, and every key the
\* initial files held is still there
C2_NoLostUpdate ==
    (\A p \in Procs : pc[p] = "done" /\ ret[p] = _EXIT_OK) =>
        /\ \E o \in Orders :
             LET serial == SerialRun(fs0, o, 1)
             IN  \A t \in Targets :
                     /\ Exists(fs, t)
                     /\ fs[t].text = serial[t].text
        /\ LET cfg == DocAt(fs, opencode_config_path).o
               auth == DocAt(fs, opencode_auth_path).o
           IN  \A p \in Procs :
                 /\ Has(auth, params[p].provider_id)
                 /\ Get(auth, params[p].provider_id) =
                        Obj(<< <<"type", Str("api")>>,
                               <<"key", Str(params[p].api_key)>> >>)
                 /\ Has(Get(cfg, "provider").o, params[p].provider_id)
                 /\ \A i \in DOMAIN params[p].disabled_providers :
                        \E j \in DOMAIN Get(cfg, "disabled_providers").l :
                            Get(cfg, "disabled_providers").l[j] =
                                Str(params[p].disabled_providers[i])
                 /\ Keys(DocAt(fs0, opencode_config_path).o) \subseteq Keys(cfg)
                 /\ Keys(DocAt(fs0, opencode_auth_path).o) \subseteq Keys(auth)
                 /\ Has(DocAt(fs0, opencode_config_path).o, "provider") =>
                        Keys(Get(DocAt(fs0, opencode_config_path).o, "provider").o)
                            \subseteq Keys(Get(cfg, "provider").o)

\* every invocation succeeded, on files that existed, and changed both of them
C2_Witness ==
    /\ \A p \in Procs : pc[p] = "done" /\ ret[p] = _EXIT_OK
    /\ \A t \in Targets : Exists(fs0, t)
    /\ \A p \in Procs : touched[p] = Targets

\* C3: atomic write: every step leaves the text of a target file as it was
\* (or the file absent), or makes it the complete serialization of the
\* document of an atomic_write_json call on that path; a failed or stopped
\* call never leaves an empty or partial target
C3_AtomicWrite ==
    [][\A t \in Targets :
          \/ FileAt(fs', t).text = FileAt(fs, t).text
          \/ \E p \in Procs :
                /\ wr[p].path = t
                /\ Exists(fs', t)
                /\ fs'[t].text = wr[p].encoded]_vars

\* a write failed half way: the temporary file is partial, the target is whole
C3_Witness ==
    \E p \in Procs :
        /\ wr[p].step = "finally"
        /\ wr[p].err = "OSError"
        /\ wr[p].tmp # NoPath
        /\ Exists(fs, wr[p].tmp)
        /\ Len(fs[wr[p].tmp].text) \in 1..(Len(wr[p].encoded) - 1)
        /\ Exists(fs, wr[p].path)
        /\ fs[wr[p].path] = FileAt(fs0, wr[p].path)

\* C4: no half-applied setup: an invocation that has ended has changed both
\* target files or none of them
C4_NoHalfApplied ==
    \A p \in Procs : Ended(p) => touched[p] \in {{}, Targets}

\* C5: an invocation that failed with a ValidationError, a SchemaError, a
\* ParseError or a LockError has changed neither target file: not its text,
\* not its permissions, not its existence
PreWriteErrors ==
    {"ValidationError", "InvalidSchemaError", "InvalidJsonError", "LockError"}

C5_FailureBeforeWriteChangesNothing ==
    \A p \in Procs :
        (Ended(p) /\ exc[p] \in PreWriteErrors) =>
            /\ touched[p] = {}
            /\ (\A q \in Procs \ {p} : touched[q] = {}) =>
                   \A t \in Targets : FileAt(fs, t) = FileAt(fs0, t)

\* one invocation failed on an unreadable auth file, another on a held lock
C5_Witness ==
    \E p \in Procs, q \in Procs :
        /\ pc[p] = "done" /\ exc[p] = "InvalidJsonError" /\ ret[p] = _EXIT_FILESYSTEM
        /\ pc[q] = "done" /\ exc[q] = "LockError" /\ ret[q] = _EXIT_FILESYSTEM
        /\ Exists(fs, opencode_config_path)

\* C6: backup before overwrite: a step that changes the text of an existing
\* target file finds a backup of that file with its prior content
C6_BackupBeforeOverwrite ==
    [][\A t \in Targets :
          (Exists(fs, t) /\ FileAt(fs', t).text # fs[t].text) =>
              \E b \in DOMAIN fs :
                  /\ b.kind = "bak"
                  /\ b.dir = t.dir
                  /\ b.base = t.base
                  /\ fs[b].text = fs[t].text]_vars

\* C7: the backup backup_file returns is owner-only, and on POSIX it is never
\* more permissive than owner-only from its creation on
C7_BackupOwnerOnly ==
    /\ \A b \in bk.returned : fs[b].mode = OwnerOnly
    /\ (platform = "posix") =>
           \A b \in DOMAIN fs : (b.kind = "bak") => (fs[b].mode \subseteq OwnerOnly)

BodyPositions ==
    {"read_config", "read_auth", "merge_config", "merge_auth", "write_config",
     "write_auth"}

HoldsLock(p, path) ==
    /\ InBody(p, lock_path(path))
    /\ lockHolder[lock_path(path)] = p

\* C9: lock-then-read: the auth lock is taken while the config lock is held,
\* and every read, merge and write of an invocation happens with both locks
\* held by it
C9_LockThenRead ==
    \A p \in Procs :
        /\ (pc[p] = "lock_auth") => HoldsLock(p, opencode_config_path)
        /\ InBody(p, lock_path(opencode_auth_path)) =>
               held[p] = <<lock_path(opencode_config_path),
                           lock_path(opencode_auth_path)>>
        /\ (pc[p] \in BodyPositions) =>
               /\ HoldsLock(p, opencode_config_path)
               /\ HoldsLock(p, opencode_auth_path)
        /\ (touched[p] # {} /\ ~Ended(p) /\ pc[p] # "handlers") =>
               HoldsLock(p, opencode_config_path)

\* an invocation is about to read the config file, holding both locks, while
\* another one waits for the config lock
C9_Witness ==
    \E p \in Procs, q \in Procs :
        /\ pc[p] = "read_config"
        /\ held[p] = <<lock_path(opencode_config_path),
                       lock_path(opencode_auth_path)>>
        /\ pc[q] = "lock_config"

C10_TerminatesWithExitCode ==
    \A p \in Procs :
        <>(pc[p] = "done" /\ ret[p] \in {_EXIT_OK, _EXIT_VALIDATION, _EXIT_FILESYSTEM})

\* p is blocked in an acquire call on a lock that q holds
WaitsFor(p, q) ==
    /\ p # q
    /\ pc[p] \in {"lock_config", "lock_auth"}
    /\ lockHolder[lock_path(PathOf(pc[p]))] = q

\* no circular wait: an invocation that another one waits for is not itself
\* waiting, so no chain of waits closes into a cycle
C10_NoCircularWait ==
    \A p \in Procs, q \in Procs, r \in Procs : ~(WaitsFor(p, q) /\ WaitsFor(q, r))

\* every invocation eventually ends, by a return or by an exception that
\* leaves run_setup
C10_EventuallyEnds == \A p \in Procs : <>Ended(p)

\* C11: lock timeout: file_lock raises LockError only on a lock that another
\* invocation holds; the failed attempt does not enter the body of its
\* with-block, and a lock leaves its holder only when the holder itself leaves
\* the with-block
C11_LockTimeout ==
    [][/\ \A p \in Procs :
            ((exc[p] # "LockError" /\ exc'[p] = "LockError") =>
                LET lp == lock_path(PathOf(pc[p]))
                IN  /\ pc[p] \in {"lock_config", "lock_auth"}
                    /\ lockHolder[lp] \in Procs \ {p}
                    /\ lockHolder'[lp] = lockHolder[lp]
                    /\ \A i \in DOMAIN held'[p] : held'[p][i] # lp
                    /\ held'[p] = held[p]
                    /\ pc'[p] \in {"exit_with", "handlers"})
       /\ \A q \in Procs :
            ((exc[q] = "LockError") =>
                /\ pc'[q] \notin BodyPositions
                /\ held'[q] = <<>> \/ Len(held'[q]) < Len(held[q]))
       /\ \A lp \in LockPaths :
            ((lockHolder[lp] # 0 /\ lockHolder'[lp] # lockHolder[lp]) =>
                /\ pc[lockHolder[lp]] = "exit_with"
                /\ lockHolder'[lp] = 0)]_vars

\* an invocation got a LockError on the config lock and has left file_lock
\* without entering its body, while the other invocation works under the lock
C11_Witness ==
    \E p \in Procs, q \in Procs :
        /\ p # q
        /\ exc[p] = "LockError"
        /\ pc[p] = "handlers"
        /\ held[p] = <<>>
        /\ lockHolder[lock_path(opencode_config_path)] = q
        /\ pc[q] \in BodyPositions

BeforeRename(w) == w.step # "none" /\ (w.made = NoPath \/ w.tmp # NoPath)

TypedErrors ==
    {"InvalidJsonError", "InvalidSchemaError", "ValidationError", "LockError",
     "PermissionRestrictError"}

\* C14: closed error taxonomy: an error that file_lock, read_json_object,
\* merge_config, merge_auth or atomic_write_json raises is one of the typed
\* kinds, and file_lock raises nothing but LockError
C14_ClosedErrorTaxonomy ==
    [][\A p \in Procs :
         (exc'[p] # exc[p] /\ pc[p] \in {"lock_config", "lock_auth"} \cup BodyPositions) =>
             /\ exc'[p] \in TypedErrors
             /\ (pc[p] \in {"lock_config", "lock_auth"}) => exc'[p] = "LockError"]_vars

\* C15: deterministic exit codes: run_setup never raises, and it returns 0 only
\* without an error, 3 for a ValidationError or an InvalidSchemaError and 4 for
\* an InvalidJsonError, a PermissionRestrictError, a LockError or an OSError
C15_DeterministicExitCodes ==
    \A p \in Procs :
        /\ pc[p] # "raised"
        /\ (pc[p] = "done") =>
               /\ ret[p] \in {_EXIT_OK, _EXIT_VALIDATION, _EXIT_FILESYSTEM}
               /\ (ret[p] = _EXIT_OK) <=> (exc[p] = "none")
               /\ (ret[p] = _EXIT_VALIDATION) <=>
                      (exc[p] \in {"ValidationError", "InvalidSchemaError"})
               /\ (ret[p] = _EXIT_FILESYSTEM) <=>
                      (exc[p] \in {"InvalidJsonError", "PermissionRestrictError",
                                   "LockError", "OSError"})

Calls == DOMAIN mg.hist
Returns(i, fn) == mg.hist[i].fn = fn /\ mg.hist[i].err = "none"

\* the number of entries of a dict under a key
Count(o, k) == Cardinality({i \in DOMAIN o : o[i][1] = k})
ApiEntry(api_key) == Obj(<< <<"type", Str("api")>>, <<"key", Str(api_key)>> >>)

\* every key of d other than those in owned is in r, once, with the value it has in d
KeepsOthers(d, r, owned) ==
    \A k \in Keys(d) \ owned : Count(r, k) = 1 /\ Get(r, k) = Get(d, k)

\* C17: auth upsert: a merge_auth that returns maps its provider to one entry
\* {type: "api", key: k} and keeps every other key with its value, whatever its
\* shape; after merge_auth(merge_auth(D, p, k1), q, k2) with p # q the result
\* has p with k1, q with k2 and every other key of D unchanged
C17_AuthUpsertPreservesOthers ==
    /\ \A i \in Calls :
         Returns(i, "merge_auth") =>
             LET c == mg.hist[i]
             IN  /\ Count(c.val.o, c.args[1]) = 1
                 /\ Get(c.val.o, c.args[1]) = ApiEntry(c.args[2])
                 /\ Keys(c.val.o) = Keys(c.before.o) \cup {c.args[1]}
                 /\ KeepsOthers(c.before.o, c.val.o, {c.args[1]})
    /\ (/\ Len(mg.hist) = 2
        /\ Returns(1, "merge_auth")
        /\ Returns(2, "merge_auth")
        /\ mg.hist[1].args[1] # mg.hist[2].args[1]) =>
           LET D == mg.hist[1].before.o
               r == mg.hist[2].val.o
               p == mg.hist[1].args[1]
               q == mg.hist[2].args[1]
           IN  /\ mg.hist[2].before = mg.hist[1].val
               /\ Get(r, p) = ApiEntry(mg.hist[1].args[2])
               /\ Get(r, q) = ApiEntry(mg.hist[2].args[2])
               /\ Count(r, p) = 1
               /\ Count(r, q) = 1
               /\ KeepsOthers(D, r, {p, q})

\* two providers were merged one after the other into a document that had an
\* entry of another shape under the first one and a key that is no provider
C17_Witness ==
    /\ Len(mg.hist) = 2
    /\ Returns(1, "merge_auth")
    /\ Returns(2, "merge_auth")
    /\ mg.hist[1].args[1] # mg.hist[2].args[1]
    /\ Has(mg.hist[1].before.o, mg.hist[1].args[1])
    /\ Get(mg.hist[1].before.o, mg.hist[1].args[1]) = Str("legacy")
    /\ Has(mg.hist[2].val.o, "note")

\* the document a setup invocation reads back from the file it wrote
ReadBack(doc) == ParseText(Serialize(doc))

\* C18: re-running converges: a second call with the arguments of the first,
\* on the result of the first, returns a document equal to it, key order
\* included, so the file written again has the same text
C18_RerunConverges ==
    (/\ Len(mg.hist) = 2
     /\ mg.hist[1].err = "none"
     /\ mg.hist[2].fn = mg.hist[1].fn
     /\ mg.hist[2].args = mg.hist[1].args) =>
        LET once == mg.hist[1].val
            args == mg.hist[1].args
        IN  /\ mg.hist[2].err = "none"
            /\ mg.hist[2].before = once
            /\ mg.hist[2].val = once
            /\ Serialize(mg.hist[2].val) = Serialize(once)
            /\ ReadBack(once) = Ok(once)
            /\ IF mg.hist[1].fn = "merge_auth"
               THEN /\ merge_auth(mg.hist[1].before, args[1], args[2]) = Ok(once)
                    /\ merge_auth(once, args[1], args[2]) = Ok(once)
               ELSE /\ merge_config(mg.hist[1].before, args[1], args[2], args[3],
                                    args[4]) = Ok(once)
                    /\ merge_config(once, args[1], args[2], args[3], args[4])
                           = Ok(once)

\* merge_config was called twice with a whitelist and a list of disabled
\* providers that repeat an item, on a document that had both keys
C18_Witness ==
    /\ Len(mg.hist) = 2
    /\ Returns(1, "merge_config")
    /\ Returns(2, "merge_config")
    /\ mg.hist[2].args = mg.hist[1].args
    /\ mg.hist[1].args[3] # <<>>
    /\ mg.hist[1].args[4] # <<>>
    /\ Has(mg.hist[1].before.o, "disabled_providers")
    /\ Has(mg.hist[1].before.o, "provider")
    /\ mg.hist[1].val # mg.hist[1].before

\* C19: foreign keys survive a config merge: a merge_config that returns keeps
\* every top-level key other than provider and disabled_providers, and every
\* entry of the provider map other than the one of provider_id, with its value
C19_ForeignKeysSurvive ==
    \A i \in Calls :
        Returns(i, "merge_config") =>
            LET c == mg.hist[i]
                D == c.before.o
                r == c.val.o
            IN  /\ KeepsOthers(D, r, {"provider", "disabled_providers"})
                /\ Has(r, "provider")
                /\ IsObj(Get(r, "provider"))
                /\ (Has(D, "provider") /\ IsObj(Get(D, "provider"))) =>
                       KeepsOthers(Get(D, "provider").o, Get(r, "provider").o,
                                   {c.args[1]})

\* merge_config returned on a document with a foreign top-level key, and on one
\* whose provider map had the provider and another one
C19_Witness ==
    /\ \E i \in Calls :
         /\ Returns(i, "merge_config")
         /\ Has(mg.hist[i].before.o, "provider")
         /\ IsObj(Get(mg.hist[i].before.o, "provider"))
         /\ Keys(Get(mg.hist[i].before.o, "provider").o) = {"azure", "other"}
         /\ mg.hist[i].args[1] = "azure"
    /\ \E i \in Calls :
         /\ Returns(i, "merge_config")
         /\ Has(mg.hist[i].before.o, "keybinds") \/ Has(mg.hist[i].before.o, "theme")

\* C20: merges are pure: after a call, returned or raised, the document the
\* caller passed is equal to what it was before the call
C20_MergesArePure ==
    \A i \in Calls : mg.hist[i].after = mg.hist[i].before

\* merge_config has returned on a document with a provider map and a list of
\* disabled providers, and a merge has raised
C20_Witness ==
    /\ \E i \in Calls :
         /\ Returns(i, "merge_config")
         /\ Has(mg.hist[i].before.o, "provider")
         /\ IsObj(Get(mg.hist[i].before.o, "provider"))
         /\ IsList(Get(mg.hist[i].before.o, "disabled_providers"))
         /\ mg.hist[i].val # mg.hist[i].before
    /\ \E i \in Calls : mg.hist[i].err = "ValidationError"

\* the strings of the disabled_providers list of a document; none when the
\* key is absent
DisabledOf(doc) ==
    IF Has(doc.o, "disabled_providers") /\ IsList(Get(doc.o, "disabled_providers"))
    THEN [i \in DOMAIN Get(doc.o, "disabled_providers").l |->
             Get(doc.o, "disabled_providers").l[i].s]
    ELSE <<>>

\* C21: order-preserving union: the disabled_providers list merge_config
\* returns is a list of strings without duplicates, holds exactly the elements
\* of the existing list and of the caller's list, and orders them by their
\* first occurrence in (existing list, caller's list): existing entries keep
\* their order ahead of the new ones, new ones come in the order given
C21_DisabledProvidersUnion ==
    \A c \in Calls :
       Returns(c, "merge_config") =>
       LET existing == DisabledOf(mg.hist[c].before)
           given == mg.hist[c].args[4]
           all == existing \o given
           dp == Get(mg.hist[c].val.o, "disabled_providers")
           out == DisabledOf(mg.hist[c].val)
           \* the position of the first occurrence of x in seq
           FirstAt(seq, x) ==
               CHOOSE i \in DOMAIN seq : seq[i] = x /\ \A j \in 1..(i - 1) : seq[j] # x
       IN  /\ Count(mg.hist[c].val.o, "disabled_providers") = 1
           /\ IsList(dp)
           /\ \A i \in DOMAIN dp.l : dp.l[i] = Str(out[i])
           /\ \A i, j \in DOMAIN out : out[i] = out[j] => i = j
           /\ {out[i] : i \in DOMAIN out} = {all[i] : i \in DOMAIN all}
           /\ \A i, j \in DOMAIN out :
                i < j => FirstAt(all, out[i]) < FirstAt(all, out[j])
           /\ \A i, j \in DOMAIN out :
                (/\ \E k \in DOMAIN existing : existing[k] = out[i]
                 /\ \A k \in DOMAIN existing : existing[k] # out[j]) => i < j

\* merge_config has returned on a document that lists two disabled providers,
\* with a caller's list that repeats one of them and brings two new ones that
\* are not in alphabetical order
C21_Witness ==
    \E c \in Calls :
       /\ Returns(c, "merge_config")
       /\ DisabledOf(mg.hist[c].before) = <<"z-provider", "azure">>
       /\ mg.hist[c].args[4] = <<"m", "azure", "b">>
       /\ DisabledOf(mg.hist[c].val) = <<"z-provider", "azure", "m", "b">>

\* C22: strict disabled_providers, lenient provider: with valid arguments
\* merge_config raises InvalidSchemaError whenever the document has a
\* disabled_providers key whose value is not a list (null included) or is a
\* list with a non-string element, and on no other document: an absent key is
\* the empty list and a provider value that is not a map is an empty map
C22_StrictDisabledLenientProvider ==
    \A c \in Calls :
       (/\ mg.hist[c].fn = "merge_config"
        /\ mg.hist[c].args[1] # ""
        /\ ~validate_resource_name_raises(mg.hist[c].args[2])) =>
       LET doc == mg.hist[c].before.o
           malformed ==
               /\ Has(doc, "disabled_providers")
               /\ \/ ~IsList(Get(doc, "disabled_providers"))
                  \/ \E i \in DOMAIN Get(doc, "disabled_providers").l :
                        ~IsStr(Get(doc, "disabled_providers").l[i])
       IN  /\ malformed => mg.hist[c].err = "InvalidSchemaError"
           /\ ~malformed => mg.hist[c].err = "none"

\* C23: resource-name grammar: validate_resource_name, and with it
\* merge_config, accepts a name if and only if it has 1 to 64 characters, all
\* of them ASCII letters, digits or hyphens, the first and the last a letter
\* or digit; any other name, a newline as its last character included, is
\* rejected with ValidationError
C23_ResourceNameGrammar ==
    \A c \in Calls :
       mg.hist[c].fn = "validate_resource_name" =>
       LET name == mg.hist[c].args[1]
           wellFormed ==
               /\ Len(name) \in 1..(MaxInterior + 2)
               /\ \A i \in DOMAIN name : name[i] \in AlnumChars \cup {HyphenChar}
               /\ name[1] \in AlnumChars
               /\ name[Len(name)] \in AlnumChars
       IN  /\ wellFormed => mg.hist[c].err = "none" /\ mg.hist[c].val.err = "none"
           /\ ~wellFormed => /\ mg.hist[c].err = "ValidationError"
                             /\ mg.hist[c].val.err = "ValidationError"

\* C24: backups never overwrite: a call of backup_file picks a name that no
\* file has, never changes a file that was there before it, returns a backup
\* in the original's directory whose content is the original's content read
\* by the call, and does not fail on a name collision
C24_BackupsNeverOverwrite ==
    [][/\ (bk.step = "idle" /\ bk'.step # "idle") => ~Exists(fs, bk'.backup_path)
       /\ \A f \in DOMAIN fs :
            (f # bk.backup_path \/ bk.step \in {"open", "copy2"}) =>
            (f \in DOMAIN fs' /\ fs'[f] = fs[f])
       /\ \A b \in bk'.returned \ bk.returned :
            /\ b.dir = bk.path.dir
            /\ fs'[b].text = fs'[bk.path].text
            /\ fs'[b].text = bk'.content
       /\ bk'.err # "FileExistsError"]_vars

\* C25: read outcome classification: read_json_object returns the empty
\* document when the path does not exist, the parsed document when the file
\* holds a JSON object, raises InvalidSchemaError when it holds an array, a
\* string or null, and InvalidJsonError when the bytes are not valid JSON or
\* the file cannot be read; nothing else leaves it
C25_ReadOutcomes ==
    \A c \in Calls :
       mg.hist[c].fn = "read_json_object" =>
       LET case == mg.hist[c].args[1]
           exists == mg.hist[c].args[3]
           readable == mg.hist[c].args[4]
           err == mg.hist[c].err
       IN  /\ err \in {"none", "InvalidSchemaError", "InvalidJsonError"}
           /\ ~exists => err = "none" /\ mg.hist[c].val = Obj(<<>>)
           /\ (exists /\ ~readable) => err = "InvalidJsonError"
           /\ (exists /\ readable /\ case.holds = "object") =>
                  err = "none" /\ mg.hist[c].val = case.doc
           /\ (exists /\ readable /\ case.holds \in {"array", "string", "null"}) =>
                  err = "InvalidSchemaError"
           /\ (exists /\ readable /\ case.holds = "not json") =>
                  err = "InvalidJsonError"

C27_KeyNoninterference ==
    \A c \in Calls :
       mg.hist[c].fn = "_execute_setup" =>
       LET a == mg.hist[c].val[1]
           b == mg.hist[c].val[2]
           Lines(r) == {r.stdout[i] : i \in DOMAIN r.stdout}
                       \cup {r.stderr[i] : i \in DOMAIN r.stderr}
       IN  /\ a.ret = b.ret
           /\ a.raised = b.raised
           /\ a.stdout = b.stdout
           /\ a.stderr = b.stderr
           /\ FileAt(a.files, opencode_config_path) = FileAt(b.files, opencode_config_path)
           /\ mg.hist[c].args[4] \notin Lines(a)
           /\ mg.hist[c].args[5] \notin Lines(b)

C29_WriteOrder ==
    [][LET cfg == opencode_config_path
           auth == opencode_auth_path
           InAuthWrite(p) ==
               /\ pc[p] = "write_auth"
               /\ wr[p].path = auth
               /\ Exists(fs, cfg)
               /\ fs[cfg].text = Serialize(mem[p].new_config)
               /\ FileAt(fs', cfg) = FileAt(fs, cfg)
           Leaving == {"exit_with", "handlers", "done", "raised"}
       IN  /\ FileAt(fs', auth) # FileAt(fs, auth) => \E p \in Procs : InAuthWrite(p)
           /\ \A p \in Procs :
                /\ (auth \in touched'[p] /\ auth \notin touched[p]) => InAuthWrite(p)
                /\ (pc[p] = "write_config" /\ pc'[p] # "write_config") =>
                     /\ auth \notin touched'[p]
                     /\ exc'[p] # "none" => pc'[p] = "exit_with"
                     /\ exc'[p] = "none" =>
                          /\ pc'[p] = "write_auth"
                          /\ Exists(fs', cfg)
                          /\ fs'[cfg].text = Serialize(mem[p].new_config)
                /\ pc[p] \in Leaving => pc'[p] \in Leaving]_vars

\* the config write of one invocation is failing, with the auth file untouched
\* by it, after another invocation has written both files and exited with 0
C29_Witness ==
    \E p \in Procs, q \in Procs :
       /\ pc[p] = "write_config"
       /\ wr[p].step = "finally"
       /\ wr[p].err = "OSError"
       /\ opencode_auth_path \notin touched[p]
       /\ pc[q] = "done"
       /\ ret[q] = _EXIT_OK
       /\ touched[q] = Targets

\* C30: schema closure: every document merge_config returns has a
\* disabled_providers list of strings without duplicates and a provider map
\* that holds, for every provider id merged so far, a block with
\* options.baseURL and a whitelist of strings without duplicates, the block of
\* an earlier provider as it was merged; and merge_config on a document that
\* merge_config returned does not raise InvalidSchemaError
C30_SchemaClosure ==
    LET StringsNoRepeat(v) ==
            /\ IsList(v)
            /\ \A i \in DOMAIN v.l : IsStr(v.l[i])
            /\ \A i, j \in DOMAIN v.l : v.l[i] = v.l[j] => i = j
        WellFormedBlock(b) ==
            /\ IsObj(b)
            /\ Has(b.o, "options")
            /\ IsObj(Get(b.o, "options"))
            /\ Has(Get(b.o, "options").o, "baseURL")
            /\ IsStr(Get(Get(b.o, "options").o, "baseURL"))
            /\ Has(b.o, "whitelist")
            /\ StringsNoRepeat(Get(b.o, "whitelist"))
    IN  \A c \in Calls :
           /\ Returns(c, "merge_config") =>
                LET doc == mg.hist[c].val.o
                IN  /\ Count(doc, "disabled_providers") = 1
                    /\ StringsNoRepeat(Get(doc, "disabled_providers"))
                    /\ Count(doc, "provider") = 1
                    /\ IsObj(Get(doc, "provider"))
                    /\ \A d \in 1..c :
                         Returns(d, "merge_config") =>
                         LET id == mg.hist[d].args[1]
                             blocks == Get(doc, "provider").o
                         IN  /\ Count(blocks, id) = 1
                             /\ WellFormedBlock(Get(blocks, id))
                             /\ (\A e \in (d + 1)..c : mg.hist[e].args[1] # id) =>
                                    Get(blocks, id)
                                      = Get(Get(mg.hist[d].val.o, "provider").o, id)
           /\ (mg.hist[c].fn = "merge_config"
               /\ \E d \in 1..(c - 1) : Returns(d, "merge_config")) =>
                  mg.hist[c].err # "InvalidSchemaError"

\* two merges for two providers have returned, the first on a document whose
\* provider value was not a map or that had other providers, the second on
\* the result of the first: both blocks are there
C30_Witness ==
    /\ Len(mg.hist) = 2
    /\ Returns(1, "merge_config")
    /\ Returns(2, "merge_config")
    /\ mg.hist[2].before = mg.hist[1].val
    /\ mg.hist[1].args[1] = "azure"
    /\ mg.hist[2].args[1] = "github-copilot"
    /\ mg.hist[1].args[3] = <<"gpt-4o", "o3", "gpt-4o">>
    /\ Has(mg.hist[1].before.o, "provider")
    /\ {"azure", "github-copilot"} \subseteq Keys(Get(mg.hist[2].val.o, "provider").o)

=============================================================================
